---------------------------- MODULE Spec2Model ----------------------------
(***************************************************************************)
(* A model of the shared infrastructure of kt (src/common.go, src/main.go): *)
(* the print loop that serialises records of concurrent producers onto     *)
(* standard output, the interrupt watcher that closes the shared           *)
(* cancellation channel, the Java-compatible key hash and partitioner, the  *)
(* Kafka version resolver and the transform-value selector.                *)
(***************************************************************************)
EXTENDS Integers, Sequences, FiniteSets, TLC

(***************************************************************************)
(* Bounds of the model.                                                    *)
(***************************************************************************)
\* records each producer submits
RecordsPerProducer == 2
\* buffer capacity of the print channel (the channel is made by the callers)
ChanCap == 1
\* longest key, in runes, drawn for the hash functions
MaxKeyLen == 3

\* capacity of the signals channel: make(chan os.Signal, 1)
SignalsCap == 1

\* the producer goroutines writing to the print channel
Producers == {"p1", "p2"}
NumProducers == Cardinality(Producers)
RecordIds == Producers \X (1..RecordsPerProducer)
\* the goroutines that read the cancellation channel
Observers == {"o1", "o2", "o3", "o4"}
\* signal.Notify(signals, os.Kill, os.Interrupt): the signals relayed to the
\* watcher
NotifiedSignals == {"killed", "interrupt"}
\* the notified signals a process can receive: SIGKILL is never delivered to it
DeliverableSignals == NotifiedSignals \ {"killed"}

\* the environment variables and the values the transform options take
EnvVars == {"KT_FORMAT", "KT_ENCODE_KEY"}
OptionNames == {"format", "encodekey"}
OptionValues == {"", "string", "hex", "base64", "binary"}

NoCtx == [id |-> <<"none", 0>>, marshalable |-> TRUE]
NoSig == "none"
NoErr == "nil"
NoBuf == <<"nil">>

VARIABLES
  \* ---- process
  exited,       \* os.Exit has been called (or the runtime panicked)
  exitStatus,   \* the exit status, 0 while running
  stdout,       \* lines written to standard output
  stderr,       \* messages written to standard error
  \* ---- print channel, producers, print loop
  in,           \* buffered contents of the print channel
  sendOrder,    \* ids in the order their send on the channel completed
  recvOrder,    \* ids in the order the print loop received them
  pcP,          \* producer position: "send", "wait", "finished"
  nSent,        \* records each producer has submitted
  done,         \* each record's done channel: "none", "open", "closed"
  closes,       \* number of close(ctx.done) calls per record
  pcPrint,      \* print loop position
  marshalKind,  \* the marshal function chosen by print
  ctx,          \* the printContext the loop holds
  buf,          \* print's buf variable
  err,          \* print's err variable
  \* ---- interrupt watcher
  signals,      \* the signals channel of listenForInterrupt
  pcWatch,      \* watcher position
  sig,          \* the signal the watcher received
  q,            \* the cancellation channel: "open", "closed"
  qCloses,      \* number of close(q) calls
  lastRead,     \* what each observer saw at its latest read of q
  \* ---- calls of the main goroutine into the helper functions
  lastCall,     \* the function called last, "none" before the first call
  args,         \* its arguments
  result,       \* what it returned
  recognized,   \* the non-empty version strings kafkaVersion has resolved
  env,          \* the process environment
  envReads      \* the environment variables the last call looked up

procVars == <<exited, exitStatus, stdout, stderr>>
printVars == <<in, sendOrder, recvOrder, pcP, nSent, done, closes, pcPrint,
               marshalKind, ctx, buf, err>>
watchVars == <<signals, pcWatch, sig, q, qCloses>>
mainVars == <<lastCall, args, result, recognized, env, envReads>>
vars == <<procVars, printVars, watchVars, lastRead, mainVars>>

Running == ~exited

(***************************************************************************)
(* failf: the message goes to standard error and the process exits with    *)
(* status 1.                                                               *)
(***************************************************************************)
\* variant: failf that reports and returns to its caller
failf_NoExit(msg) ==
  /\ stderr' = Append(stderr, msg)
  /\ UNCHANGED <<exited, exitStatus>>

failf(msg) ==
  /\ stderr' = Append(stderr, msg)
  /\ exited' = TRUE
  /\ exitStatus' = 1

\* a runtime panic (close of a closed channel) ends the process with status 2
panic ==
  /\ exited' = TRUE
  /\ exitStatus' = 2

(***************************************************************************)
(* Producers (the commands, callers of print): each sends its records on   *)
(* the print channel and may wait for a record's done channel.             *)
(***************************************************************************)
NewContext(p, m) == [id |-> <<p, nSent[p] + 1>>, marshalable |-> m]

AfterSend(p, waits) ==
  IF waits THEN "wait"
  ELSE IF nSent[p] + 1 = RecordsPerProducer THEN "finished" ELSE "send"

\* out <- ctx on a channel with free buffer space
ProducerSend(p) ==
  /\ Running
  /\ pcP[p] = "send"
  /\ Len(in) < ChanCap
  /\ \E m \in BOOLEAN, waits \in BOOLEAN :
       LET c == NewContext(p, m) IN
         /\ in' = Append(in, c)
         /\ sendOrder' = Append(sendOrder, c.id)
         /\ done' = [done EXCEPT ![c.id] = "open"]
         /\ nSent' = [nSent EXCEPT ![p] = @ + 1]
         /\ pcP' = [pcP EXCEPT ![p] = AfterSend(p, waits)]
  /\ UNCHANGED <<procVars, recvOrder, closes, pcPrint, marshalKind, ctx, buf,
                 err, watchVars, lastRead, mainVars>>

\* <-ctx.done returns once the done channel is closed
ProducerRelease(p) ==
  /\ Running
  /\ pcP[p] = "wait"
  /\ done[<<p, nSent[p]>>] = "closed"
  /\ pcP' = [pcP EXCEPT ![p] =
               IF nSent[p] = RecordsPerProducer THEN "finished" ELSE "send"]
  /\ UNCHANGED <<procVars, in, sendOrder, recvOrder, nSent, done, closes,
                 pcPrint, marshalKind, ctx, buf, err,
                 watchVars, lastRead, mainVars>>

(***************************************************************************)
(* print                                                                   *)
(***************************************************************************)
\* json.Marshal / json.MarshalIndent of ctx.output
marshal(kind, c) ==
  IF c.marshalable
  THEN [buf |-> <<kind, c.id>>, err |-> NoErr]
  ELSE [buf |-> NoBuf, err |-> "unsupported type"]

\* lines 75-83: the choice of the marshal function
PrintStart ==
  /\ Running
  /\ pcPrint = "start"
  /\ \E pretty \in BOOLEAN, isTerminal \in BOOLEAN :
       marshalKind' = IF pretty /\ isTerminal THEN "indent" ELSE "compact"
  /\ pcPrint' = "recv"
  /\ UNCHANGED <<procVars, in, sendOrder, recvOrder, pcP, nSent, done, closes,
                 ctx, buf, err, watchVars, lastRead, mainVars>>

\* variant: the receive leaves the record in the channel
PrintRecv_KeepHead ==
  /\ Running
  /\ pcPrint = "recv"
  /\ in # <<>>
  /\ ctx' = Head(in)
  /\ recvOrder' = Append(recvOrder, Head(in).id)
  /\ pcPrint' = "marshal"
  /\ UNCHANGED <<procVars, in, sendOrder, pcP, nSent, done, closes,
                 marshalKind, buf, err, watchVars, lastRead, mainVars>>

\* variant: the receive selects on the cancellation channel and stops once
\* it is closed
PrintRecv_StopOnCancel ==
  /\ Running
  /\ q = "open"
  /\ pcPrint = "recv"
  /\ in # <<>>
  /\ ctx' = Head(in)
  /\ in' = Tail(in)
  /\ recvOrder' = Append(recvOrder, Head(in).id)
  /\ pcPrint' = "marshal"
  /\ UNCHANGED <<procVars, sendOrder, pcP, nSent, done, closes, marshalKind,
                 buf, err, watchVars, lastRead, mainVars>>

\* ctx := <-in, from the channel's buffer
PrintRecv ==
  /\ Running
  /\ pcPrint = "recv"
  /\ in # <<>>
  /\ ctx' = Head(in)
  /\ in' = Tail(in)
  /\ recvOrder' = Append(recvOrder, Head(in).id)
  /\ pcPrint' = "marshal"
  /\ UNCHANGED <<procVars, sendOrder, pcP, nSent, done, closes, marshalKind,
                 buf, err, watchVars, lastRead, mainVars>>

\* ctx := <-in, handed over directly by a producer blocked in its send
PrintRendezvous(p) ==
  /\ Running
  /\ pcPrint = "recv"
  /\ in = <<>>
  /\ pcP[p] = "send"
  /\ \E m \in BOOLEAN, waits \in BOOLEAN :
       LET c == NewContext(p, m) IN
         /\ ctx' = c
         /\ sendOrder' = Append(sendOrder, c.id)
         /\ recvOrder' = Append(recvOrder, c.id)
         /\ done' = [done EXCEPT ![c.id] = "open"]
         /\ nSent' = [nSent EXCEPT ![p] = @ + 1]
         /\ pcP' = [pcP EXCEPT ![p] = AfterSend(p, waits)]
  /\ pcPrint' = "marshal"
  /\ UNCHANGED <<procVars, in, closes, marshalKind, buf,
                 err, watchVars, lastRead, mainVars>>

\* lines 87-89
PrintMarshal ==
  /\ Running
  /\ pcPrint = "marshal"
  /\ LET r == marshal(marshalKind, ctx) IN
       /\ buf' = r.buf
       /\ err' = r.err
       /\ IF r.err # NoErr
          THEN failf(<<"failed to marshal output", ctx.id, r.err>>)
          ELSE UNCHANGED <<exited, exitStatus, stderr>>
  /\ pcPrint' = "println"
  /\ UNCHANGED <<stdout, in, sendOrder, recvOrder, pcP, nSent, done, closes,
                 marshalKind, ctx, watchVars, lastRead, mainVars>>

\* variant: the line is not written
PrintPrintln_Skip ==
  /\ Running
  /\ pcPrint = "println"
  /\ pcPrint' = "close"
  /\ UNCHANGED <<exited, exitStatus, stderr, stdout, in, sendOrder, recvOrder,
                 pcP, nSent, done, closes, marshalKind,
                 ctx, buf, err, watchVars, lastRead, mainVars>>

\* line 91: fmt.Println(string(buf))
PrintPrintln ==
  /\ Running
  /\ pcPrint = "println"
  /\ stdout' = Append(stdout, buf)
  /\ pcPrint' = "close"
  /\ UNCHANGED <<exited, exitStatus, stderr, in, sendOrder, recvOrder, pcP,
                 nSent, done, closes, marshalKind, ctx,
                 buf, err, watchVars, lastRead, mainVars>>

\* line 92: close(ctx.done); closing a closed channel panics
PrintClose ==
  /\ Running
  /\ pcPrint = "close"
  /\ closes' = [closes EXCEPT ![ctx.id] = @ + 1]
  /\ IF done[ctx.id] = "closed"
     THEN panic /\ UNCHANGED done
     ELSE /\ done' = [done EXCEPT ![ctx.id] = "closed"]
          /\ UNCHANGED <<exited, exitStatus>>
  /\ ctx' = NoCtx
  /\ pcPrint' = "recv"
  /\ UNCHANGED <<stdout, stderr, in, sendOrder, recvOrder, pcP, nSent,
                 marshalKind, buf, err, watchVars, lastRead, mainVars>>

PrintLoop ==
  PrintStart \/ PrintRecv \/ PrintMarshal \/ PrintPrintln \/ PrintClose

(***************************************************************************)
(* listenForInterrupt                                                      *)
(***************************************************************************)
\* lines 27-28: make(chan os.Signal, 1); signal.Notify(...)
WatchNotify ==
  /\ Running
  /\ pcWatch = "start"
  /\ signals' = <<>>
  /\ pcWatch' = "recv"
  /\ UNCHANGED <<procVars, printVars, sig, q, qCloses, lastRead, mainVars>>

\* the runtime relays a notified signal without blocking: it is dropped
\* when the signals channel is full
OSSignal(s) ==
  /\ Running
  /\ pcWatch # "start"
  /\ signals' = IF Len(signals) < SignalsCap THEN Append(signals, s)
                ELSE signals
  /\ UNCHANGED <<procVars, printVars, pcWatch, sig, q, qCloses, lastRead,
                 mainVars>>

\* line 29: sig := <-signals
WatchRecv ==
  /\ Running
  /\ pcWatch = "recv"
  /\ signals # <<>>
  /\ sig' = Head(signals)
  /\ signals' = Tail(signals)
  /\ pcWatch' = "report"
  /\ UNCHANGED <<procVars, printVars, q, qCloses, lastRead, mainVars>>

\* line 30
WatchReport ==
  /\ Running
  /\ pcWatch = "report"
  /\ stderr' = Append(stderr, <<"received signal", sig>>)
  /\ pcWatch' = "close"
  /\ UNCHANGED <<exited, exitStatus, stdout, printVars, signals, sig, q,
                 qCloses, lastRead, mainVars>>

\* variant: the watcher goes back to waiting for the next signal
WatchClose_Loop ==
  /\ Running
  /\ pcWatch = "close"
  /\ qCloses' = qCloses + 1
  /\ IF q = "closed"
     THEN panic /\ UNCHANGED q
     ELSE q' = "closed" /\ UNCHANGED <<exited, exitStatus>>
  /\ pcWatch' = "recv"
  /\ UNCHANGED <<stdout, stderr, printVars, signals, sig, lastRead, mainVars>>

\* line 31: close(q), then the function returns
WatchClose ==
  /\ Running
  /\ pcWatch = "close"
  /\ qCloses' = qCloses + 1
  /\ IF q = "closed"
     THEN panic /\ UNCHANGED q
     ELSE q' = "closed" /\ UNCHANGED <<exited, exitStatus>>
  /\ pcWatch' = "done"
  /\ UNCHANGED <<stdout, stderr, printVars, signals, sig, lastRead, mainVars>>

\* a command loop reads the cancellation channel (select on q)
Observe(o) ==
  /\ Running
  /\ lastRead' = [lastRead EXCEPT ![o] = q]
  /\ UNCHANGED <<procVars, printVars, watchVars, mainVars>>

(***************************************************************************)
(* The concurrent system: producers, print loop, interrupt watcher.        *)
(***************************************************************************)
InitProcess ==
  /\ exited = FALSE
  /\ exitStatus = 0
  /\ stdout = <<>>
  /\ stderr = <<>>
  /\ in = <<>>
  /\ sendOrder = <<>>
  /\ recvOrder = <<>>
  /\ pcP = [p \in Producers |-> "send"]
  /\ nSent = [p \in Producers |-> 0]
  /\ done = [r \in RecordIds |-> "none"]
  /\ closes = [r \in RecordIds |-> 0]
  /\ pcPrint = "start"
  /\ marshalKind = "compact"
  /\ ctx = NoCtx
  /\ buf = NoBuf
  /\ err = NoErr
  /\ signals = <<>>
  /\ pcWatch = "start"
  /\ sig = NoSig
  /\ q = "open"
  /\ qCloses = 0
  /\ lastRead = [o \in Observers |-> "unread"]
  /\ lastCall = "none"
  /\ args = <<>>
  /\ result = <<>>
  /\ recognized = {}
  /\ envReads = {}

Init == InitProcess /\ env = [v \in EnvVars |-> ""]

Next ==
  \/ \E p \in Producers : ProducerSend(p)
  \/ \E p \in Producers : ProducerRelease(p)
  \/ \E p \in Producers : PrintRendezvous(p)
  \/ PrintStart
  \/ PrintRecv
  \/ PrintMarshal
  \/ PrintPrintln
  \/ PrintClose
  \/ WatchNotify
  \/ \E s \in DeliverableSignals : OSSignal(s)
  \/ WatchRecv
  \/ WatchReport
  \/ WatchClose

Spec == Init /\ [][Next]_vars

\* The print loop is a goroutine of its own: the scheduler runs it whenever
\* it can take a step.
LiveSpec == Spec /\ WF_vars(PrintLoop)

(***************************************************************************)
(* The interrupt watcher with the goroutines that read the cancellation    *)
(* channel.                                                                *)
(***************************************************************************)
SignalNext ==
  \/ WatchNotify
  \/ \E s \in DeliverableSignals : OSSignal(s)
  \/ WatchRecv
  \/ WatchReport
  \/ WatchClose
  \/ \E o \in Observers : Observe(o)

SignalSpec == Init /\ [][SignalNext]_vars

(***************************************************************************)
(* int32 arithmetic.  A value is split in 16-bit halves so that no         *)
(* intermediate result leaves the 32-bit range.                            *)
(***************************************************************************)
MinInt32 == -2147483647 - 1
MaxInt32 == -(MinInt32 + 1)
Lo16(x) == x % 65536
Hi16(x) == (x \div 65536) % 65536
FromHalves(hi, lo) ==
  IF hi >= 32768 THEN (hi - 65536) * 65536 + lo ELSE hi * 65536 + lo

\* a + b in int32, wrapping
Add32(a, b) ==
  LET lo == Lo16(a) + Lo16(b)
      hi == Hi16(a) + Hi16(b) + (lo \div 65536)
  IN  FromHalves(hi % 65536, lo % 65536)

\* x * 31 in int32, wrapping
Mul31(x) ==
  LET lo == Lo16(x) * 31
      hi == Hi16(x) * 31 + (lo \div 65536)
  IN  FromHalves(hi % 65536, lo % 65536)

\* i * -1 in int32: the minimum has no positive counterpart and wraps to itself
Neg32(i) == IF i = MinInt32 THEN MinInt32 ELSE -i

\* a % b of Go for b > 0: the remainder takes the sign of the dividend
GoRem(a, b) ==
  IF a >= 0 THEN a % b
  ELSE IF a = MinInt32 THEN -((-(a + b)) % b)
  ELSE -((-a) % b)

(***************************************************************************)
(* hashCode, kafkaAbs, hashCodePartition.  A key is the sequence of runes  *)
(* that ranging over the string yields.                                    *)
(***************************************************************************)
\* unicode.ReplacementChar
replacementChar == 65533

\* utf16.EncodeRune: the surrogate pair of a rune in 0x10000..0x10FFFF, and
\* (U+FFFD, U+FFFD) for every other rune
EncodeRune(r) ==
  IF r < 65536 \/ r > 1114111
  THEN <<replacementChar, replacementChar>>
  ELSE <<55296 + (((r - 65536) \div 1024) % 1024),
         56320 + ((r - 65536) % 1024)>>

\* variant: every rune is folded once, surrogate pairs ignored
foldRune_BmpOnly(hc, r) == Add32(Mul31(hc), r)

\* variant: the rune is added before the multiplication
foldRune_AddFirst(hc, r) == Mul31(Add32(hc, r))

\* lines 122-127: one iteration of hashCode's loop
foldRune(hc, r) ==
  LET r1 == EncodeRune(r)[1]
      r2 == EncodeRune(r)[2]
  IN  IF r1 = replacementChar /\ r1 = r2
      THEN Add32(Mul31(hc), r)
      ELSE Add32(Mul31(Add32(Mul31(hc), r1)), r2)

RECURSIVE hashLoop(_, _, _)
hashLoop(s, i, hc) ==
  IF i > Len(s) THEN hc ELSE hashLoop(s, i + 1, foldRune(hc, s[i]))

hashCode(s) == hashLoop(s, 1, 0)

\* variant: no case for the minimum int32
kafkaAbs_NoMinCase(i) == IF i < 0 THEN Neg32(i) ELSE i

kafkaAbs(i) ==
  CASE i = MinInt32 -> 0
    [] i # MinInt32 /\ i < 0 -> Neg32(i)
    [] OTHER -> i

hashCodePartition(key, partitions) ==
  IF partitions <= 0 THEN -1
  ELSE GoRem(kafkaAbs(hashCode(key)), partitions)

\* the runes keys are drawn from: 'a', U+FFFD, U+FFFF, U+10000, U+1F600,
\* U+10FFFF
Runes == {97, 65533, 65535, 65536, 128512, 1114111}
RECURSIVE SeqsUpTo(_)
SeqsUpTo(n) ==
  IF n = 0 THEN {<<>>}
  ELSE SeqsUpTo(n - 1)
         \cup {Append(s, r) : s \in {x \in SeqsUpTo(n - 1) : Len(x) = n - 1},
                              r \in Runes}
\* "kafka"
KafkaKey == <<107, 97, 102, 107, 97>>
\* U+01BF U+10FBF5 U+10FFE9, a key whose hash is the minimum int32
MinHashKey == <<447, 1113077, 1114089>>
Keys == SeqsUpTo(MaxKeyLen) \cup {KafkaKey, MinHashKey}
PartitionCounts == {-5, 0, 1, 3, 7, MaxInt32}
Int32Samples == {MinInt32, MinInt32 + 1, -7, -1, 0, 1, MaxInt32}

CallHashCode(s) ==
  /\ Running
  /\ lastCall = "none"
  /\ lastCall' = "hashCode"
  /\ args' = <<s>>
  /\ result' = hashCode(s)
  /\ UNCHANGED <<procVars, printVars, watchVars, lastRead, recognized, env,
                 envReads>>

CallKafkaAbs(i) ==
  /\ Running
  /\ lastCall = "none"
  /\ lastCall' = "kafkaAbs"
  /\ args' = <<i>>
  /\ result' = kafkaAbs(i)
  /\ UNCHANGED <<procVars, printVars, watchVars, lastRead, recognized, env,
                 envReads>>

CallHashCodePartition(key, partitions) ==
  /\ Running
  /\ lastCall = "none"
  /\ lastCall' = "hashCodePartition"
  /\ args' = <<key, partitions>>
  /\ result' = hashCodePartition(key, partitions)
  /\ UNCHANGED <<procVars, printVars, watchVars, lastRead, recognized, env,
                 envReads>>

\* the caller takes the result and goes on
Return ==
  /\ Running
  /\ lastCall # "none"
  /\ lastCall' = "none"
  /\ args' = <<>>
  /\ result' = <<>>
  /\ envReads' = {}
  /\ UNCHANGED <<procVars, printVars, watchVars, lastRead, recognized, env>>

HashNext ==
  \/ \E s \in Keys : CallHashCode(s)
  \/ \E i \in Int32Samples : CallKafkaAbs(i)
  \/ \E key \in Keys, partitions \in PartitionCounts :
       CallHashCodePartition(key, partitions)
  \/ Return

HashSpec == Init /\ [][HashNext]_vars

(***************************************************************************)
(* kafkaVersion                                                            *)
(***************************************************************************)
NoMatch == "no case"
NoVersion == "no version"
dflt == "V0_10_0_0"

\* variant: an unknown string falls back to the default version
kafkaVersionSwitch_DefaultCase(s) ==
  CASE s = "v0.8.2.0" -> "V0_8_2_0"
    [] s = "v0.8.2.1" -> "V0_8_2_1"
    [] s = "v0.8.2.2" -> "V0_8_2_2"
    [] s = "v0.9.0.0" -> "V0_9_0_0"
    [] s = "v0.9.0.1" -> "V0_9_0_1"
    [] s = "v0.10.0.0" -> "V0_10_0_0"
    [] s = "v0.10.0.1" -> "V0_10_0_1"
    [] s = "v0.10.1.0" -> "V0_10_1_0"
    [] s = "v0.10.2.0" -> "V0_10_2_0"
    [] OTHER -> dflt

\* lines 36-57: the switch, NoMatch when control falls through it
kafkaVersionSwitch(s) ==
  CASE s = "v0.8.2.0" -> "V0_8_2_0"
    [] s = "v0.8.2.1" -> "V0_8_2_1"
    [] s = "v0.8.2.2" -> "V0_8_2_2"
    [] s = "v0.9.0.0" -> "V0_9_0_0"
    [] s = "v0.9.0.1" -> "V0_9_0_1"
    [] s = "v0.10.0.0" -> "V0_10_0_0"
    [] s = "v0.10.0.1" -> "V0_10_0_1"
    [] s = "v0.10.1.0" -> "V0_10_1_0"
    [] s = "v0.10.2.0" -> "V0_10_2_0"
    [] s = "" -> dflt
    [] OTHER -> NoMatch

\* the version strings the main goroutine passes
VersionInputs ==
  {"", "v0.8.2.0", "v0.8.2.1", "v0.8.2.2", "v0.9.0.0", "v0.9.0.1",
   "v0.10.0.0", "v0.10.0.1", "v0.10.1.0", "v0.10.2.0", "v0.10.2.1",
   "v0.11.0.0", "v1.0.0", "0.10.0.0", "V0.10.0.0", "bogus"}

\* kafkaVersion(s): a matching case returns; otherwise failf, and the
\* return of dflt behind it runs only if failf comes back
CallKafkaVersion(s) ==
  /\ Running
  /\ lastCall = "none"
  /\ lastCall' = "kafkaVersion"
  /\ args' = <<s>>
  /\ IF kafkaVersionSwitch(s) # NoMatch
     THEN /\ result' = kafkaVersionSwitch(s)
          /\ UNCHANGED <<exited, exitStatus, stderr>>
     ELSE /\ failf(<<"unsupported kafka version", s>>)
          /\ result' = IF exited' THEN NoVersion ELSE dflt
  /\ recognized' = IF ~exited' /\ s # "" THEN recognized \cup {s}
                   ELSE recognized
  /\ UNCHANGED <<stdout, printVars, watchVars, lastRead, env, envReads>>

VersionNext ==
  \/ \E s \in VersionInputs : CallKafkaVersion(s)
  \/ Return

VersionSpec == Init /\ [][VersionNext]_vars

(***************************************************************************)
(* getTransformValue                                                       *)
(***************************************************************************)
\* variant: the environment variable takes precedence over the argument
getTransformValue_EnvFirst(name, envvar, argvalue) ==
  LET fromEnv == env[envvar]
      value   == IF fromEnv = "" THEN argvalue ELSE fromEnv
  IN  [reads |-> {envvar},
       value |-> CASE value \in {"string", "hex", "base64"} -> value
                   [] value = "" -> "string"
                   [] OTHER -> "",
       err   |-> IF value \in {"string", "hex", "base64", ""} THEN NoErr
                 ELSE <<"unsupported argument", name, value>>]

\* lines 167-180; reads are the os.Getenv lookups made
getTransformValue(name, envvar, argvalue) ==
  LET value == IF argvalue = "" THEN env[envvar] ELSE argvalue
  IN  [reads |-> IF argvalue = "" THEN {envvar} ELSE {},
       value |-> CASE value \in {"string", "hex", "base64"} -> value
                   [] value = "" -> "string"
                   [] OTHER -> "",
       err   |-> IF value \in {"string", "hex", "base64", ""} THEN NoErr
                 ELSE <<"unsupported argument", name, value>>]

CallGetTransformValue(name, envvar, argvalue) ==
  /\ Running
  /\ lastCall = "none"
  /\ lastCall' = "getTransformValue"
  /\ args' = <<name, envvar, argvalue>>
  /\ LET r == getTransformValue(name, envvar, argvalue) IN
       /\ result' = <<r.value, r.err>>
       /\ envReads' = r.reads
  /\ UNCHANGED <<procVars, printVars, watchVars, lastRead, recognized, env>>

TransformInit == InitProcess /\ env \in [EnvVars -> OptionValues]

TransformNext ==
  \/ \E name \in OptionNames, envvar \in EnvVars,
        argvalue \in OptionValues :
       CallGetTransformValue(name, envvar, argvalue)
  \/ Return

TransformSpec == TransformInit /\ [][TransformNext]_vars

(***************************************************************************)
(* Properties of the print loop.                                           *)
(***************************************************************************)
\* the line print writes for record r
LineOf(r) == <<marshalKind, r>>
\* the position of x in a sequence that holds it
Pos(s, x) == CHOOSE i \in 1..Len(s) : s[i] = x
Written(r) == \E i \in 1..Len(stdout) : stdout[i] = LineOf(r)
Received(r) == \E i \in 1..Len(recvOrder) : recvOrder[i] = r
AllSubmitted == \A p \in Producers : nSent[p] = RecordsPerProducer
Drained == AllSubmitted /\ in = <<>> /\ pcPrint = "recv"

C2_Inv ==
  \A r \in RecordIds :
    /\ closes[r] <= 1
    /\ done[r] = "closed" =>
         /\ closes[r] = 1
         /\ Written(r)
         /\ \A r2 \in RecordIds :
              (Received(r2) /\ Pos(recvOrder, r) < Pos(recvOrder, r2)
                 /\ Written(r2))
                => Pos(stdout, LineOf(r)) < Pos(stdout, LineOf(r2))
    /\ done[r] # "closed" => closes[r] = 0

C2_Step ==
  \A r \in RecordIds :
    (done[r] # "closed" /\ done'[r] = "closed") =>
      /\ pcPrint = "close" /\ ctx.id = r /\ pcPrint' = "recv"
      /\ stdout # <<>> /\ stdout[Len(stdout)] = LineOf(r)
      /\ stdout' = stdout

\* C2: a record's done channel is closed exactly once, by the print loop's
\* close step only, and only after the record's line is on the output: where
\* a done channel is closed, its record's line is written and precedes the
\* line of every record received later.
C2_DoneFiredOnceAfterWrite == []C2_Inv /\ [][C2_Step]_vars

\* two records are written and fired while a third is in flight
C2_Witness ==
  /\ Cardinality({r \in RecordIds : done[r] = "closed"}) >= 2
  /\ pcPrint = "println"
  /\ ctx.marshalable

MarshalFailed == err # NoErr

C9_Inv ==
  MarshalFailed =>
    /\ exited /\ exitStatus = 1
    /\ ~ctx.marshalable
    /\ recvOrder # <<>> /\ recvOrder[Len(recvOrder)] = ctx.id
    /\ stderr # <<>>
    /\ stderr[Len(stderr)] = <<"failed to marshal output", ctx.id, err>>
    /\ ~Written(ctx.id)
    /\ \A i \in 1..Len(stdout) : stdout[i] # buf
    /\ Len(stdout) = Len(recvOrder) - 1
    /\ done[ctx.id] = "open" /\ closes[ctx.id] = 0
    /\ \A i \in 1..Len(in) : ~Written(in[i].id) /\ done[in[i].id] = "open"

C9_Step == MarshalFailed => (stdout' = stdout /\ done' = done /\ in' = in)

\* C9: when marshalling a dequeued record fails the failure is reported on
\* standard error and the process exits with status 1; no line is written
\* for the record, its done channel is never closed, and no record queued
\* after it is written.
C9_MarshalFailureIsFatal == []C9_Inv /\ [][C9_Step]_vars

\* a record fails to marshal after an earlier one was written and while a
\* later one waits in the channel
C9_Witness ==
  /\ MarshalFailed
  /\ stdout # <<>>
  /\ in # <<>>
  /\ \E p \in Producers : pcP[p] = "wait" /\ ctx.id = <<p, nSent[p]>>

Handed(r) == ctx.id = r \/ \E i \in 1..Len(in) : in[i].id = r
Fired(r) == Written(r) /\ done[r] = "closed"
WaitsOn(p, r) == pcP[p] = "wait" /\ r = <<p, nSent[p]>>

\* C10: with the print loop scheduled fairly and no marshal failure, every
\* record handed to the print channel is eventually written and its done
\* channel closed, so a producer waiting on it is released, whether or not
\* the cancellation channel has been closed.
C10_HandedRecordsAreFired ==
  \A r \in RecordIds :
    (Handed(r) \/ \E p \in Producers : WaitsOn(p, r))
      ~> (Fired(r) \/ (exited /\ exitStatus = 1))

\* after the cancellation channel is closed the print loop is about to close
\* the done channel of a record whose producer waits on it
C10_Witness ==
  /\ q = "closed"
  /\ pcPrint = "close"
  /\ \E p \in Producers : WaitsOn(p, ctx.id)
  /\ Written(ctx.id)

(***************************************************************************)
(* Properties of the interrupt watcher.                                    *)
(***************************************************************************)
C8_Inv ==
  /\ qCloses <= 1
  /\ Running
  /\ q = "closed" =>
       /\ qCloses = 1
       /\ sig \in NotifiedSignals
       /\ \E i \in 1..Len(stderr) : stderr[i] = <<"received signal", sig>>
       /\ pcWatch = "done"
  /\ q = "open" => qCloses = 0

C8_Step ==
  /\ q = "closed" => q' = "closed"
  /\ q' # q => (pcWatch = "close" /\ pcWatch' = "done")
  /\ qCloses' # qCloses => pcWatch = "close"
  /\ \A o \in Observers :
       (q = "closed" /\ lastRead'[o] # lastRead[o]) => lastRead'[o] = "closed"

\* C8: the cancellation channel is closed at most once, by the watcher only
\* and only after it received a signal; once closed it stays closed, every
\* later read sees it closed, and no second close is attempted however many
\* signals arrive.
C8_CancellationClosedOnce == []C8_Inv /\ [][C8_Step]_vars

\* the channel is closed, every observer has read it closed, and a further
\* signal has arrived since
C8_Witness ==
  /\ q = "closed"
  /\ pcWatch = "done"
  /\ signals # <<>>
  /\ \A o \in Observers : lastRead[o] = "closed"

(***************************************************************************)
(* Properties of the partitioner.                                          *)
(***************************************************************************)
\* C3: for a partition count n > 0 hashCodePartition lies in 0..n-1 whatever
\* the key's hash; kafkaAbs is never negative and is 0 for the minimum
\* int32, so a key with that hash goes to partition 0.
C3_PartitionInRange ==
  /\ lastCall = "hashCodePartition" =>
       /\ args[2] > 0 => result \in 0..(args[2] - 1)
       /\ (args[2] > 0 /\ args[1] = MinHashKey) => result = 0
  /\ lastCall = "kafkaAbs" =>
       /\ result >= 0
       /\ args[1] = MinInt32 => result = 0

\* the key whose hash is the minimum int32, three partitions
C3_Witness ==
  /\ lastCall = "hashCodePartition"
  /\ args = <<MinHashKey, 3>>
  /\ hashCode(MinHashKey) = MinInt32
  /\ result = 0

\* the UTF-16 code units of a sequence of code points
RECURSIVE UTF16(_)
UTF16(s) ==
  IF s = <<>> THEN <<>>
  ELSE LET c == Head(s) IN
       (IF c >= 65536
        THEN <<55296 + ((c - 65536) \div 1024), 56320 + ((c - 65536) % 1024)>>
        ELSE <<c>>) \o UTF16(Tail(s))

\* String.hashCode of Java over code units: h = 31*h + u, in int32
RECURSIVE JavaHash(_)
JavaHash(u) ==
  IF u = <<>> THEN 0
  ELSE LET n == Len(u) IN Add32(Mul31(JavaHash(SubSeq(u, 1, n - 1))), u[n])

\* C4: hashCode is Java's String.hashCode of the key's UTF-16 encoding: a
\* code point beyond the BMP is folded as its surrogate pair, every other
\* one (U+FFFD included) once.
C4_HashIsJavaStringHash ==
  lastCall = "hashCode" => result = JavaHash(UTF16(args[1]))

\* a key that mixes a code point beyond the BMP, U+FFFD and an ASCII letter
C4_Witness ==
  /\ lastCall = "hashCode"
  /\ args = <<<<128512, 65533, 97>>>>
  /\ UTF16(args[1]) = <<55357, 56832, 65533, 97>>

\* C5, as amended: hashCode("kafka") is 101807910.
C5_KafkaHash ==
  (lastCall = "hashCode" /\ args[1] = KafkaKey) => result = 101807910

\* C5, as stated: hashCode("kafka") is 105354032.
C5_Original ==
  (lastCall = "hashCode" /\ args[1] = KafkaKey) => result = 105354032

C5_Witness == lastCall = "hashCode" /\ args[1] = KafkaKey /\ result > 0

(***************************************************************************)
(* Properties of the version resolver.                                     *)
(***************************************************************************)
SupportedVersions ==
  [s \in {"v0.8.2.0", "v0.8.2.1", "v0.8.2.2", "v0.9.0.0", "v0.9.0.1",
          "v0.10.0.0", "v0.10.0.1", "v0.10.1.0", "v0.10.2.0"} |->
     CASE s = "v0.8.2.0" -> "V0_8_2_0"
       [] s = "v0.8.2.1" -> "V0_8_2_1"
       [] s = "v0.8.2.2" -> "V0_8_2_2"
       [] s = "v0.9.0.0" -> "V0_9_0_0"
       [] s = "v0.9.0.1" -> "V0_9_0_1"
       [] s = "v0.10.0.0" -> "V0_10_0_0"
       [] s = "v0.10.0.1" -> "V0_10_0_1"
       [] s = "v0.10.1.0" -> "V0_10_1_0"
       [] s = "v0.10.2.0" -> "V0_10_2_0"]

\* every version string the resolver does not fail on has been resolved
AllRecognized ==
  \A s \in VersionInputs \ {""} :
    kafkaVersionSwitch(s) # NoMatch => s \in recognized

\* what a call of the resolver does with each input
C6_Outcome ==
  lastCall = "kafkaVersion" =>
    LET s == args[1] IN
      /\ s \in DOMAIN SupportedVersions =>
           Running /\ result = SupportedVersions[s] /\ stderr = <<>>
      /\ s = "" => Running /\ result = "V0_10_0_0" /\ stderr = <<>>
      /\ s \notin DOMAIN SupportedVersions \cup {""} =>
           /\ exited /\ exitStatus = 1
           /\ result = NoVersion
           /\ stderr = << <<"unsupported kafka version", s>> >>
           /\ s \notin recognized

\* C6, as amended: the resolver recognizes exactly nine version strings,
\* each resolving to its version; the empty string resolves to the default
\* V0_10_0_0; every other string is fatal: a message on standard error,
\* exit status 1, no version.
C6_NineVersions ==
  /\ C6_Outcome
  /\ recognized \subseteq DOMAIN SupportedVersions
  /\ AllRecognized => Cardinality(recognized) = 9

\* C6, as stated: the recognized version strings are exactly ten.
C6_Original ==
  /\ C6_Outcome
  /\ AllRecognized => Cardinality(recognized) = 10

\* every supported string has resolved and an unsupported one was fatal
C6_Witness ==
  /\ AllRecognized
  /\ lastCall = "kafkaVersion"
  /\ args = <<"v0.11.0.0">>
  /\ exited

(***************************************************************************)
(* Properties of the transform selector.                                   *)
(***************************************************************************)
\* C7: a non-empty argvalue is used and the environment is not consulted;
\* an empty one falls back to the environment variable; the resolved value
\* is returned unchanged when it is "string", "hex" or "base64", is "string"
\* when empty, and otherwise the result is empty with an error naming the
\* option and the value.
C7_ArgumentBeforeEnvironment ==
  lastCall = "getTransformValue" =>
    LET name     == args[1]
        envvar   == args[2]
        argvalue == args[3]
        resolved == IF argvalue # "" THEN argvalue ELSE env[envvar]
    IN  /\ argvalue # "" => envReads = {}
        /\ argvalue = "" => envReads = {envvar}
        /\ resolved \in {"string", "hex", "base64"} =>
             result = <<resolved, NoErr>>
        /\ resolved = "" => result = <<"string", NoErr>>
        /\ resolved \notin {"string", "hex", "base64", ""} =>
             result = <<"", <<"unsupported argument", name, resolved>> >>

\* an unsupported argument is an error although the environment variable
\* holds a supported value
C7_Witness ==
  /\ lastCall = "getTransformValue"
  /\ args = <<"format", "KT_FORMAT", "binary">>
  /\ env["KT_FORMAT"] = "hex"
  /\ result = <<"", <<"unsupported argument", "format", "binary">> >>

=============================================================================
